---- MODULE Spec2Model ----
(***************************************************************************)
(* A model of dulwich/credentials.py: the CredentialHelper class, which    *)
(* resolves a `credential.helper` command specification to an invocation   *)
(* descriptor, runs the helper with the verb `get`, and parses the         *)
(* key=value lines of its standard output.                                 *)
(*                                                                         *)
(* Text (str and bytes alike) is a sequence of symbols.  A symbol is one   *)
(* character, or one of the words "git-credential-", "get", "url=",        *)
(* "username", "password", which no other symbols concatenate to.          *)
(* The platform is POSIX: sys.platform is not "win32" (the branch at       *)
(* credentials.py:65 is not taken) and os.linesep is "\n".                 *)
(***************************************************************************)
EXTENDS Integers, Sequences, FiniteSets, TLC

VARIABLES
    command,     \* CredentialHelper._command
    run_kwargs,  \* CredentialHelper._run_kwargs, the set of options that are True
    env,         \* the file system, the search path and git, as the probes see them
    pc,          \* "idle", or "running" while get blocks in subprocess.run
    call         \* the call in progress, or the last call and how it ended

vars == <<command, run_kwargs, env, pc, call>>

-----------------------------------------------------------------------------
(* Bounds *)

\* The greatest number of lines a helper writes to its standard output.
MaxLines == 3

-----------------------------------------------------------------------------
(* Text primitives (the str/bytes methods the module calls) *)

LF == "\n"
CR == "\r"
QUOTE == "\""
Whitespace == {" ", LF, CR}

\* A character outside ASCII: str.encode("ascii") rejects it.
NonAscii == {"U+00FC"}
\* A byte that is no valid text in the configuration's encoding.
InvalidByte == {"0xFF"}

RECURSIVE lstrip(_)
lstrip(s) ==
    IF s # <<>> /\ Head(s) \in Whitespace THEN lstrip(Tail(s)) ELSE s

RECURSIVE rstrip(_)
rstrip(s) ==
    IF s # <<>> /\ s[Len(s)] \in Whitespace
    THEN rstrip(SubSeq(s, 1, Len(s) - 1))
    ELSE s

\* bytes.strip() / str.strip(): leading and trailing whitespace removed.
strip(s) == rstrip(lstrip(s))

\* bytes.splitlines(): breaks at "\n", "\r" and "\r\n"; no empty last line.
RECURSIVE splitlines_from(_, _, _)
splitlines_from(s, cur, acc) ==
    IF s = <<>>
    THEN IF cur = <<>> THEN acc ELSE Append(acc, cur)
    ELSE IF Head(s) = CR /\ Len(s) >= 2 /\ s[2] = LF
    THEN splitlines_from(Tail(Tail(s)), <<>>, Append(acc, cur))
    ELSE IF Head(s) \in {LF, CR}
    THEN splitlines_from(Tail(s), <<>>, Append(acc, cur))
    ELSE splitlines_from(Tail(s), Append(cur, Head(s)), acc)

splitlines(s) == splitlines_from(s, <<>>, <<>>)

\* bytes.split(sep): the parts between EVERY occurrence of sep.
RECURSIVE split_from(_, _, _, _)
split_from(s, sep, cur, acc) ==
    IF s = <<>>
    THEN Append(acc, cur)
    ELSE IF Head(s) = sep
    THEN split_from(Tail(s), sep, <<>>, Append(acc, cur))
    ELSE split_from(Tail(s), sep, Append(cur, Head(s)), acc)

split(s, sep) == split_from(s, sep, <<>>, <<>>)

\* str.encode("ascii"): the same symbols, or UnicodeEncodeError.
encode_ascii(s) ==
    IF \E i \in 1..Len(s) : s[i] \in NonAscii
    THEN [ok |-> FALSE, exc |-> "UnicodeEncodeError", val |-> <<>>]
    ELSE [ok |-> TRUE, exc |-> "", val |-> s]

\* bytes.decode(encoding): the same symbols, or UnicodeDecodeError.
decode(b) ==
    IF \E i \in 1..Len(b) : b[i] \in InvalidByte
    THEN [ok |-> FALSE, exc |-> "UnicodeDecodeError", val |-> <<>>]
    ELSE [ok |-> TRUE, exc |-> "", val |-> b]

\* shlex.split(s) in POSIX mode, for text of whitespace, double quotes and
\* plain characters: words are separated by runs of whitespace, a quoted
\* stretch belongs to the word around it, an unclosed quote is a ValueError.
RECURSIVE shlex_scan(_, _, _, _)
shlex_scan(s, state, tok, toks) ==
    IF s = <<>>
    THEN CASE state = "quote" -> [ok |-> FALSE, exc |-> "ValueError", val |-> <<>>]
           [] state = "word"  -> [ok |-> TRUE, exc |-> "", val |-> Append(toks, tok)]
           [] OTHER           -> [ok |-> TRUE, exc |-> "", val |-> toks]
    ELSE LET c == Head(s) r == Tail(s) IN
         CASE state = "ws" /\ c \in Whitespace -> shlex_scan(r, "ws", <<>>, toks)
           [] state = "ws" /\ c = QUOTE        -> shlex_scan(r, "quote", <<>>, toks)
           [] state = "ws"                     -> shlex_scan(r, "word", <<c>>, toks)
           [] state = "word" /\ c \in Whitespace ->
                  shlex_scan(r, "ws", <<>>, Append(toks, tok))
           [] state = "word" /\ c = QUOTE      -> shlex_scan(r, "quote", tok, toks)
           [] state = "word"                   -> shlex_scan(r, "word", Append(tok, c), toks)
           [] state = "quote" /\ c = QUOTE     -> shlex_scan(r, "word", tok, toks)
           [] OTHER                            -> shlex_scan(r, "quote", Append(tok, c), toks)

shlex_split(s) == shlex_scan(s, "ws", <<>>, <<>>)

\* os.path.isabs (posixpath): the path starts with "/".
isabs(p) == p # <<>> /\ Head(p) = "/"

\* os.path.join(a, b) (posixpath), for a relative b.
path_join(a, b) ==
    IF a = <<>> \/ a[Len(a)] = "/" THEN a \o b ELSE a \o <<"/">> \o b

-----------------------------------------------------------------------------
(* The environment: executables, and what `git --exec-path` answers *)

\* The helper the named specifications ask for, as an executable name.
HelperExe == <<"git-credential-", "f">>
GitExe == <<"g", "i", "t">>
\* The absolute path the absolute-path specifications name.
AbsExe == <<"/", "e">>
\* What `git --exec-path` prints when it succeeds, and the directory it names.
GitExecPathOutput == <<"/", "D", LF>>
GitExecPath == <<"/", "D">>

Envs ==
    [path_helper    : {"absent", "exec"},            \* git-credential-f on PATH
     path_git       : {"absent", "exec"},            \* git on PATH
     execdir_helper : {"absent", "exec"},            \* /D/git-credential-f
     abs_exe        : {"absent", "exec", "noexec"},  \* /e
     exec_query     : {"ok", "fail"}]                \* exit status of git --exec-path

\* shutil.which(name): the name is an executable file of a PATH directory.
which(name, e) ==
    \/ name = HelperExe /\ e.path_helper = "exec"
    \/ name = GitExe /\ e.path_git = "exec"

\* shutil.which(name, path=dir): the name is an executable file of dir.
which_in(name, dir, e) ==
    dir = GitExecPath /\ name = HelperExe /\ e.execdir_helper = "exec"

\* subprocess.check_output(("git", "--exec-path")): the output, or
\* CalledProcessError when git exits with a non-zero status.
check_output_git_exec_path(e) ==
    IF e.exec_query = "ok"
    THEN [ok |-> TRUE, exc |-> "", val |-> GitExecPathOutput]
    ELSE [ok |-> FALSE, exc |-> "CalledProcessError", val |-> <<>>]

-----------------------------------------------------------------------------
(* CredentialHelper: construction and resolution *)

\* CredentialHelper.__init__: the run options derived from the "!" prefix.
__init__(cmd) == IF cmd[1] = "!" THEN {"shell"} ELSE {}

\* A lookup that does not ask whether git is there.
NeedsExecPathLookupAnyGit(executable, e) == ~which(executable, e)

\* The condition under which resolution asks git for its execution path.
NeedsExecPathLookup(executable, e) ==
    ~which(executable, e) /\ which(GitExe, e)

Resolved(form, val, spawned) ==
    [ok |-> TRUE, exc |-> "", form |-> form, val |-> val, spawned |-> spawned]

Raised(exc, spawned) ==
    [ok |-> FALSE, exc |-> exc, form |-> "none", val |-> <<>>, spawned |-> spawned]

\* CredentialHelper._prepare_command: the invocation descriptor of a command
\* specification (form "str": a shell string; form "list": an argv list),
\* the processes started on the way, or the exception that ends it.
_prepare_command(cmd, e) ==
    IF cmd[1] = "!"
    THEN Resolved("str", Tail(cmd), <<>>)
    ELSE LET sp == shlex_split(cmd) IN
         IF ~sp.ok THEN Raised(sp.exc, <<>>)
         ELSE IF sp.val = <<>> THEN Raised("IndexError", <<>>)
         ELSE LET argv == sp.val IN
              IF isabs(argv[1]) THEN Resolved("list", argv, <<>>)
              ELSE LET executable == <<"git-credential-">> \o argv[1] IN
                   IF NeedsExecPathLookup(executable, e)
                   THEN LET out == check_output_git_exec_path(e) IN
                        IF ~out.ok THEN Raised(out.exc, <<"git">>)
                        ELSE LET git_exec_path == strip(out.val) IN
                             Resolved("list",
                                      <<IF which_in(executable, git_exec_path, e)
                                        THEN path_join(git_exec_path, executable)
                                        ELSE executable>> \o Tail(argv),
                                      <<"git">>)
                   ELSE Resolved("list", <<executable>> \o Tail(argv), <<>>)

-----------------------------------------------------------------------------
(* CredentialHelper.get *)

USERNAME == <<"username">>
PASSWORD == <<"password">>
linesep == <<LF>>

\* An assignment that keeps the value a key already has.
DictSetKeepFirst(d, k, v) ==
    IF \E p \in d : p[1] = k THEN d ELSE d \cup {<<k, v>>}

\* A Python dict is the set of its <<key, value>> items, one per key.
DictSet(d, k, v) == {p \in d : p[1] # k} \cup {<<k, v>>}
HasKey(d, k) == \E p \in d : p[1] = k

\* The loop over the output's lines: `key, value = line.split(b"=")` stores
\* the pair, and a line that does not unpack into two parts is passed over.
RECURSIVE parse_lines(_, _)
parse_lines(lines, credentials) ==
    IF lines = <<>>
    THEN credentials
    ELSE LET parts == split(Head(lines), "=") IN
         parse_lines(Tail(lines),
                     IF Len(parts) = 2
                     THEN DictSet(credentials, parts[1], parts[2])
                     ELSE credentials)

parse_credentials(stdout) == parse_lines(splitlines(strip(stdout)), {})

\* A check that asks for the username alone.
credentials_ok_username_only(credentials) ==
    credentials # {} /\ HasKey(credentials, USERNAME)

\* The check before the mapping is returned.
credentials_ok(credentials) ==
    /\ credentials # {}
    /\ HasKey(credentials, USERNAME)
    /\ HasKey(credentials, PASSWORD)

\* The verb appended to a descriptor that already carries it.
AppendVerbAgain(r) ==
    IF r.form = "str"
    THEN [form |-> "str", val |-> r.val \o <<" ", "get">> \o <<" ", "get">>]
    ELSE [form |-> "list", val |-> Append(Append(r.val, <<"get">>), <<"get">>)]

\* The verb appended to the descriptor: text to a shell string, an element
\* to an argv list.
AppendVerb(r) ==
    IF r.form = "str"
    THEN [form |-> "str", val |-> r.val \o <<" ", "get">>]
    ELSE [form |-> "list", val |-> Append(r.val, <<"get">>)]

\* The request written to the helper's standard input.
helper_input(url) == encode_ascii(<<"url=">> \o url \o linesep)

\* subprocess.run starting the process: "started", or the OSError raised.
\* With shell=True the process is the shell, which is always there.
Popen(cmd, shell, e) ==
    IF shell THEN "started"
    ELSE IF cmd.form # "list" THEN "FileNotFoundError"
    ELSE LET exe == cmd.val[1] IN
         IF isabs(exe)
         THEN CASE exe = AbsExe /\ e.abs_exe = "exec" -> "started"
                [] exe = AbsExe /\ e.abs_exe = "noexec" -> "PermissionError"
                [] exe = path_join(GitExecPath, HelperExe)
                       /\ e.execdir_helper = "exec" -> "started"
                [] OTHER -> "FileNotFoundError"
         ELSE IF which(exe, e) THEN "started" ELSE "FileNotFoundError"

NoCmd == [form |-> "none", val |-> <<>>]
NoValue == [set |-> FALSE, val |-> <<>>]
Some(v) == [set |-> TRUE, val |-> v]
NoConfig == [generic |-> NoValue, scoped |-> NoValue]

\* A call record: the operation and its arguments, what it ran, and how it
\* ended (outcome "return", or the name of the exception raised; "none"
\* while the call is in progress).
BlankCall ==
    [op |-> "init", url |-> NoValue, config |-> NoConfig,
     cmd |-> NoCmd, shell |-> FALSE, stdin |-> <<>>, spawned |-> <<>>,
     exited |-> FALSE, returncode |-> 0, stdout |-> <<>>, stderr |-> <<>>,
     outcome |-> "none", result |-> {}, message |-> <<>>]

\* get, up to the point where subprocess.run has started the helper.
get_call(url) ==
    /\ pc = "idle"
    /\ LET r == _prepare_command(command, env)
           base == [BlankCall EXCEPT !.op = "get", !.url = Some(url),
                                     !.spawned = r.spawned]
       IN  IF ~r.ok
           THEN call' = [base EXCEPT !.outcome = r.exc] /\ pc' = "idle"
           ELSE LET cmd == AppendVerb(r)
                    input == helper_input(url)
                    shell == "shell" \in run_kwargs
                    ready == [base EXCEPT !.cmd = cmd, !.shell = shell]
                IN  IF ~input.ok
                    THEN call' = [ready EXCEPT !.outcome = input.exc] /\ pc' = "idle"
                    ELSE LET started == Popen(cmd, shell, env)
                             run == [ready EXCEPT !.stdin = input.val]
                         IN  CASE started = "started" ->
                                   /\ call' = [run EXCEPT !.spawned = Append(@, "helper")]
                                   /\ pc' = "running"
                               [] started = "FileNotFoundError" ->
                                   /\ call' = [run EXCEPT
                                                 !.outcome = "CredentialNotFoundError",
                                                 !.message = <<"Helper not found">>]
                                   /\ pc' = "idle"
                               [] OTHER ->
                                   /\ call' = [run EXCEPT !.outcome = started]
                                   /\ pc' = "idle"
    /\ UNCHANGED <<command, run_kwargs, env>>

\* get, from the helper's exit (its status and what it wrote) to the end.
get_return(returncode, stdout, stderr) ==
    /\ pc = "running"
    /\ pc' = "idle"
    /\ LET done == [call EXCEPT !.exited = TRUE, !.returncode = returncode,
                                !.stdout = stdout, !.stderr = stderr]
           credentials == parse_credentials(stdout)
       IN  IF returncode # 0
           THEN call' = [done EXCEPT !.outcome = "CredentialNotFoundError",
                                     !.message = stderr]
           ELSE IF ~credentials_ok(credentials)
           THEN call' = [done EXCEPT
                           !.outcome = "CredentialNotFoundError",
                           !.message = <<"Could not get credentials from helper">>]
           ELSE call' = [done EXCEPT !.outcome = "return", !.result = credentials]
    /\ UNCHANGED <<command, run_kwargs, env>>

-----------------------------------------------------------------------------
(* CredentialHelper.store, CredentialHelper.erase *)

\* A store that ends without raising.
store_returns ==
    /\ pc = "idle"
    /\ call' = [BlankCall EXCEPT !.op = "store", !.outcome = "return"]
    /\ UNCHANGED <<command, run_kwargs, env, pc>>

store ==
    /\ pc = "idle"
    /\ call' = [BlankCall EXCEPT !.op = "store", !.outcome = "NotImplementedError"]
    /\ UNCHANGED <<command, run_kwargs, env, pc>>

erase ==
    /\ pc = "idle"
    /\ call' = [BlankCall EXCEPT !.op = "erase", !.outcome = "NotImplementedError"]
    /\ UNCHANGED <<command, run_kwargs, env, pc>>

-----------------------------------------------------------------------------
(* CredentialHelper.from_config *)

\* The URL that has a credential section of its own in the configuration.
ConfigUrl == <<"h">>

\* A lookup that always asks the generic section.
ConfigSectionGeneric(url) == [scoped |-> FALSE, url |-> <<>>]

\* The section looked up: the URL's own when a non-empty URL is given.
\* (url.encode(encoding) keeps the symbols: the encoding takes every text.)
ConfigSection(url) ==
    IF url.set /\ url.val # <<>>
    THEN [scoped |-> TRUE, url |-> url.val]
    ELSE [scoped |-> FALSE, url |-> <<>>]

\* ConfigDict.get(section, b"helper"): the section's own value, else the
\* generic section's, else KeyError.
ConfigGet(config, section) ==
    IF section.scoped /\ section.url = ConfigUrl /\ config.scoped.set
    THEN [ok |-> TRUE, exc |-> "", val |-> config.scoped.val]
    ELSE IF config.generic.set
    THEN [ok |-> TRUE, exc |-> "", val |-> config.generic.val]
    ELSE [ok |-> FALSE, exc |-> "KeyError", val |-> <<>>]

from_config(config, url) ==
    /\ pc = "idle"
    /\ LET base == [BlankCall EXCEPT !.op = "from_config", !.url = url,
                                     !.config = config]
           got == ConfigGet(config, ConfigSection(url))
           text == decode(got.val)
       IN  IF ~got.ok
           THEN call' = [base EXCEPT !.outcome = got.exc]
                /\ UNCHANGED <<command, run_kwargs>>
           ELSE IF got.val = <<>>
           THEN call' = [base EXCEPT !.outcome = "AssertionError"]
                /\ UNCHANGED <<command, run_kwargs>>
           ELSE IF ~text.ok
           THEN call' = [base EXCEPT !.outcome = text.exc]
                /\ UNCHANGED <<command, run_kwargs>>
           ELSE /\ call' = [base EXCEPT !.outcome = "return"]
                /\ command' = text.val
                /\ run_kwargs' = __init__(text.val)
    /\ UNCHANGED <<env, pc>>

-----------------------------------------------------------------------------
(* The environment changes under the program *)

EnvChange(e) ==
    /\ e # env
    /\ Cardinality({f \in DOMAIN env : e[f] # env[f]}) = 1
    /\ env' = e
    /\ UNCHANGED <<command, run_kwargs, pc, call>>

-----------------------------------------------------------------------------
(* Inputs *)

CmdShell == <<"!", "s">>
CmdAbs == <<"/", "e">>
CmdAbsArgs == <<"/", "e", " ", "x">>
CmdNamed == <<"f">>
CmdNamedArgs == <<"f", " ", "x", " ", QUOTE, "y", " ", "z", QUOTE>>
CmdUnclosed == <<"f", " ", QUOTE, "x">>
Commands == {CmdShell, CmdAbs, CmdAbsArgs, CmdNamed, CmdNamedArgs, CmdUnclosed}

Urls == {<<"h">>, <<"h", "U+00FC">>}

ExitStatuses == {0, 1}
Stderrs == {<<>>, <<"e", "r", "r">>}

\* Lines a helper may write.
LineUser == USERNAME \o <<"=", "u">>
LineUser2 == USERNAME \o <<"=", "w">>
LinePass == PASSWORD \o <<"=", "p">>
LinePassEq == PASSWORD \o <<"=", "a", "=", "b">>
LineOther == <<"k", "=", "v">>
LineNoEq == <<"c">>
LineBlank == <<>>
LinePadded == <<" ", "k", "=", "x", " ">>

BasicLines == {LineUser, LinePass}
AllLines == {LineUser, LineUser2, LinePass, LinePassEq, LineOther, LineNoEq,
             LineBlank, LinePadded}

RECURSIVE JoinLines(_)
JoinLines(ls) ==
    IF ls = <<>> THEN <<>> ELSE Head(ls) \o linesep \o JoinLines(Tail(ls))

\* The outputs of at most MaxLines lines, each ended by the line terminator.
Stdouts(lines) ==
    {JoinLines(ls) : ls \in UNION {[1..n -> lines] : n \in 0..MaxLines}}

ConfigValues == {<<>>, CmdNamed, CmdNamedArgs, <<"f", "0xFF">>}
Configs ==
    [generic : {NoValue} \cup {Some(v) : v \in ConfigValues},
     scoped  : {NoValue, Some(CmdShell)}]
ConfigUrls == {NoValue, Some(<<>>), Some(ConfigUrl), Some(<<"o">>)}

-----------------------------------------------------------------------------
(* The helper in every environment *)

Init ==
    /\ command \in Commands
    /\ run_kwargs = __init__(command)
    /\ env \in Envs
    /\ pc = "idle"
    /\ call = BlankCall

Next ==
    \/ \E url \in Urls : get_call(url)
    \/ \E rc \in ExitStatuses, out \in Stdouts(BasicLines), err \in Stderrs :
           get_return(rc, out, err)
    \/ store
    \/ erase
    \/ \E config \in Configs, url \in ConfigUrls : from_config(config, url)
    \/ \E e \in Envs : EnvChange(e)

Spec == Init /\ [][Next]_vars

-----------------------------------------------------------------------------
(* One helper that is on the search path, and every output it may write *)

InitParse ==
    /\ command = CmdNamed
    /\ run_kwargs = __init__(command)
    /\ env = [path_helper |-> "exec", path_git |-> "exec",
              execdir_helper |-> "exec", abs_exe |-> "exec", exec_query |-> "ok"]
    /\ pc = "idle"
    /\ call = BlankCall

NextParse ==
    \/ \E url \in Urls : get_call(url)
    \/ \E rc \in ExitStatuses, out \in Stdouts(AllLines), err \in Stderrs :
           get_return(rc, out, err)

SpecParse == InitParse /\ [][NextParse]_vars

-----------------------------------------------------------------------------
(* Vocabulary of the properties *)

\* A step in which get is called (and runs up to the helper's start).
GetCallStep == pc = "idle" /\ call'.op = "get" /\ call' # call
\* A step in which the helper exits and get ends.
GetReturnStep == pc = "running" /\ pc' = "idle"
\* A get call that has ended.
GetEnded == call.op = "get" /\ pc = "idle"

IsAscii(s) == \A i \in 1..Len(s) : s[i] \notin NonAscii
IsShellSpec(cmd) == cmd[1] = "!"
\* A specification that tokenizes to at least one token.
IsArgvSpec(cmd) ==
    ~IsShellSpec(cmd) /\ shlex_split(cmd).ok /\ shlex_split(cmd).val # <<>>
FirstToken(cmd) == shlex_split(cmd).val[1]
IsNamedSpec(cmd) == IsArgvSpec(cmd) /\ ~isabs(FirstToken(cmd))
CredentialName(cmd) == <<"git-credential-">> \o FirstToken(cmd)
Count(x, seq) == Cardinality({i \in 1..Len(seq) : seq[i] = x})

MsgNotFound == <<"Helper not found">>
MsgNoCredentials == <<"Could not get credentials from helper">>

-----------------------------------------------------------------------------
(* C1 *)

\* C1: get returns a mapping only if the mapping is non-empty and holds both
\* the key username and the key password; a call that ends any other way
\* hands no mapping to the caller.
C1_OnlyCompleteMappingReturned ==
    GetEnded =>
        /\ call.outcome = "return" =>
               /\ call.result # {}
               /\ \E p \in call.result : p[1] = USERNAME
               /\ \E p \in call.result : p[1] = PASSWORD
        /\ call.outcome # "return" => call.result = {}

C1_Witness ==
    /\ GetEnded
    /\ call.outcome = "return"
    /\ call.stdout = JoinLines(<<LineUser, LinePass>>)

-----------------------------------------------------------------------------
(* C2 *)

\* C2: whatever the command form, a get that fails fails with
\* CredentialNotFoundError and nothing else: with "Helper not found" when
\* the helper could not be located or started, with the helper's standard
\* error when it exited with a non-zero status, and with the message that
\* credentials could not be obtained when it exited with zero status.
C2_EveryFailureIsCredentialNotFound ==
    ( /\ GetEnded
      /\ call.outcome # "return"
      /\ IsAscii(call.url.val)
      /\ (IsShellSpec(command) \/ IsArgvSpec(command)) )
    => /\ call.outcome = "CredentialNotFoundError"
       /\ ~call.exited => call.message = MsgNotFound
       /\ (call.exited /\ call.returncode # 0) => call.message = call.stderr
       /\ (call.exited /\ call.returncode = 0) => call.message = MsgNoCredentials

-----------------------------------------------------------------------------
(* C3 *)

\* C3: each line of a successful helper's output is split at its first "="
\* only, so the output of the lines username=u and password=a=b makes get
\* return the mapping {username: u, password: a=b}.
C3_SplitOnFirstEquals ==
    ( /\ GetEnded
      /\ call.exited /\ call.returncode = 0
      /\ call.stdout = JoinLines(<<LineUser, LinePassEq>>) )
    => /\ call.outcome = "return"
       /\ call.result = {<<USERNAME, <<"u">>>>, <<PASSWORD, <<"a", "=", "b">>>>}

-----------------------------------------------------------------------------
(* C4 *)

\* The argv list the case analysis of C4 names.
C4_Expected(cmd, e) ==
    LET argv == shlex_split(cmd).val
        name == CredentialName(cmd)
    IN  IF isabs(argv[1])
        THEN argv
        ELSE <<CASE which(name, e) -> name
                 [] /\ ~which(name, e)
                    /\ which(GitExe, e)
                    /\ e.exec_query = "ok"
                    /\ which_in(name, GitExecPath, e) -> path_join(GitExecPath, name)
                 [] OTHER -> name>> \o Tail(argv)

\* C4: for a non-shell specification _prepare_command gives, whatever the
\* probes answer: the tokens unchanged when the first is an absolute path;
\* otherwise git-credential-N for the first token N when that name is on
\* the search path, D/git-credential-N when it is not, git is, and the name
\* is found in the directory D that git --exec-path reports, and the bare
\* git-credential-N in every remaining case; the other tokens follow in
\* their order and number.  (Seen in the descriptor get runs: that list and
\* the verb.)
C4_ResolutionCases ==
    [][ (GetCallStep /\ IsArgvSpec(command) /\ IsAscii(call'.url.val))
        => /\ call'.cmd.form = "list"
           /\ call'.cmd.val = Append(C4_Expected(command, env), <<"get">>) ]_vars

-----------------------------------------------------------------------------
(* C5 *)

\* C5: store and erase raise NotImplementedError on every call, whatever
\* came before: they do not return, do not raise CredentialNotFoundError,
\* start no process, and leave the command specification and the run
\* options as they were.
C5_StoreEraseNotImplemented ==
    [][ (call'.op \in {"store", "erase"} /\ call' # call)
        => /\ call'.outcome = "NotImplementedError"
           /\ call'.spawned = <<>>
           /\ call'.cmd = NoCmd
           /\ ~call'.exited
           /\ pc' = "idle"
           /\ command' = command
           /\ run_kwargs' = run_kwargs ]_vars

C5_Witness ==
    /\ call.op = "store"
    /\ call.outcome = "NotImplementedError"
    /\ pc = "idle"

-----------------------------------------------------------------------------
(* C6 *)

FromConfigStep == pc = "idle" /\ call'.op = "from_config" /\ call' # call

\* A configured value from_config can turn into a command specification.
C6_Usable(v) ==
    v.set /\ v.val # <<>> /\ \A i \in 1..Len(v.val) : v.val[i] \notin InvalidByte

\* C6: from_config builds a helper whose command specification is exactly
\* the configured helper value of the selected section: the generic
\* section's with no URL, the URL's own section's for a URL that has one
\* (also beside a generic entry); with no helper configured anywhere the
\* KeyError of the configuration comes out and no helper is made up.
C6_FromConfigSelectsSection ==
    [][ FromConfigStep
        => LET cfg == call'.config
               url == call'.url
           IN  /\ (~url.set /\ C6_Usable(cfg.generic))
                     => /\ call'.outcome = "return"
                        /\ command' = cfg.generic.val
               /\ (url.set /\ url.val = ConfigUrl /\ C6_Usable(cfg.scoped))
                     => /\ call'.outcome = "return"
                        /\ command' = cfg.scoped.val
               /\ (~cfg.generic.set /\ ~cfg.scoped.set)
                     => /\ call'.outcome = "KeyError"
                        /\ command' = command
                        /\ run_kwargs' = run_kwargs
               /\ call'.outcome = "return"
                     => run_kwargs' = (IF command'[1] = "!" THEN {"shell"} ELSE {}) ]_vars

C6_Witness ==
    /\ call.op = "from_config"
    /\ call.outcome = "return"
    /\ call.url = Some(ConfigUrl)
    /\ call.config.generic.set
    /\ call.config.scoped = Some(CmdShell)
    /\ command = CmdShell

-----------------------------------------------------------------------------
(* C7 *)

\* C7: a get call starts exactly one process, the helper, also when the
\* named helper is not on the search path and is looked up in the
\* execution-path directory.  (Stated of the calls in which the helper ran.)
C7_OneProcessPerGet ==
    (GetEnded /\ call.exited) => Len(call.spawned) = 1

\* Resolution has to ask git for its execution path.
C7_QueryNeeded(cmd, e) ==
    /\ IsNamedSpec(cmd)
    /\ ~which(CredentialName(cmd), e)
    /\ which(GitExe, e)

\* C7, amended: a get call starts the helper at most once, and exactly once
\* when the helper runs; besides it, resolution starts one process,
\* git --exec-path, exactly when the specification names a helper that is
\* not on the search path while git is.  A get call so starts at most two
\* processes, the query first.
C7_AtMostOneHelperAndOneQuery ==
    [][ /\ GetCallStep
          => /\ Count("git", call'.spawned)
                   = (IF C7_QueryNeeded(command, env) THEN 1 ELSE 0)
             /\ Count("helper", call'.spawned) = (IF pc' = "running" THEN 1 ELSE 0)
             /\ Len(call'.spawned)
                   = Count("git", call'.spawned) + Count("helper", call'.spawned)
             /\ Len(call'.spawned) = 2 => call'.spawned[1] = "git"
        /\ GetReturnStep
          => /\ call'.spawned = call.spawned
             /\ Count("helper", call'.spawned) = 1 ]_vars

C7_Witness ==
    /\ GetEnded
    /\ call.exited
    /\ call.spawned = <<"git", "helper">>
    /\ call.cmd.form = "list"
    /\ call.cmd.val[1] = path_join(GitExecPath, HelperExe)

-----------------------------------------------------------------------------
(* C8 *)

\* C8: resolution never fails on a helper that is not found: for a named
\* helper, whatever the probes and the execution-path query answer,
\* _prepare_command returns a descriptor, and a get that fails fails with
\* CredentialNotFoundError.
C8_ResolutionNeverRaises ==
    (GetEnded /\ IsNamedSpec(command) /\ IsAscii(call.url.val))
    => /\ call.cmd.form = "list"
       /\ call.outcome \in {"return", "CredentialNotFoundError"}

-----------------------------------------------------------------------------
(* C9 *)

C9_WellFormed(line) == Count("=", line) = 1
C9_EqualsAt(line) == CHOOSE i \in 1..Len(line) : line[i] = "="
C9_Key(line) == SubSeq(line, 1, C9_EqualsAt(line) - 1)
C9_Value(line) == SubSeq(line, C9_EqualsAt(line) + 1, Len(line))

\* The pairs of the well-formed lines, the last line of a key deciding it.
C9_Pairs(lines) ==
    {<<C9_Key(lines[i]), C9_Value(lines[i])>> :
        i \in {i \in 1..Len(lines) :
                 /\ C9_WellFormed(lines[i])
                 /\ \A j \in (i + 1)..Len(lines) :
                        ~(C9_WellFormed(lines[j])
                          /\ C9_Key(lines[j]) = C9_Key(lines[i]))}}

-----------------------------------------------------------------------------
(* C10 *)

\* C10: a get call leaves the command specification and the shell option
\* as they were, and what it invokes is resolved anew, in the environment
\* of that call, with the verb get appended once: for a "!" specification
\* the rest of the text and " get", run through a shell; otherwise the argv
\* list of the resolution and "get", run without a shell, one element
\* longer than the specification has tokens.  The helper's standard input
\* is the line url=<url> and the line terminator.
C10_FreshDescriptorEachCall ==
    [][ /\ (GetCallStep \/ GetReturnStep)
          => /\ command' = command
             /\ run_kwargs' = run_kwargs
        /\ (GetCallStep /\ call'.stdin # <<>>)
          => /\ call'.stdin = <<"url=">> \o call'.url.val \o <<LF>>
             /\ IF IsShellSpec(command)
                THEN /\ call'.shell
                     /\ call'.cmd.form = "str"
                     /\ call'.cmd.val = Tail(command) \o <<" ", "get">>
                ELSE /\ ~call'.shell
                     /\ call'.cmd.form = "list"
                     /\ Len(call'.cmd.val) = Len(shlex_split(command).val) + 1
                     /\ call'.cmd.val
                          = _prepare_command(command, env).val \o << <<"get">> >>
        /\ GetReturnStep
          => /\ call'.cmd = call.cmd
             /\ call'.stdin = call.stdin
             /\ call'.shell = call.shell ]_vars

C10_Witness ==
    /\ call.op = "get"
    /\ call.stdin = <<"url=", "h", LF>>
    /\ command = CmdNamedArgs
    /\ call.cmd.form = "list"
    /\ call.cmd.val = <<HelperExe, <<"x">>, <<"y", " ", "z">>, <<"get">> >>

====
